---- MODULE Spec2Model ----
(***************************************************************************)
(* A model of the gizmo field tooling:                                     *)
(*   - package metrics: the nine per-team gauge families, the MQTT message *)
(*     handler mqttCallback, ResetRobotMetrics and MQTTInit;               *)
(*   - package cmdlets: the interactive "field remap" client;              *)
(*   - package gamepad: JSController.BindController / GetState.            *)
(* Each package has its own specification over the shared variable list;   *)
(* the variables of the other packages stay at their initial values.       *)
(***************************************************************************)
EXTENDS Integers, Sequences, FiniteSets, TLC

VARIABLES
    m,             \* Metrics: the nine GaugeVecs, family name -> (team -> value)
    last,          \* the last call on Metrics that returned (history)
    resetCleared,  \* teams whose series the latest ResetRobotMetrics removed (history)
    cb,            \* the running mqttCallback: position, team and decoded report
    rs,            \* the running ResetRobotMetrics: number of families already reset
    sc,            \* the running scrape (Registry.Gather): families collected so far
    started,       \* how many handler / reset / scrape calls have been started
    mq,            \* MQTTInit: its position, its result and what led to it
    wg,            \* the startup sync.WaitGroup: its counter and MQTTInit's Done calls
    client,        \* the MQTT client: transport session and broker-side subscription
    rpc,           \* fieldRemapCmdRun: its position
    quads,         \* the quadrants decoded from /admin/cfg/quads
    cMap,          \* the object decoded from /admin/map/current
    ccMap,         \* the defaults shown, by quadrant
    qi,            \* the question survey.Ask is asking
    nMap,          \* the answers, by question name
    nnMap,         \* the map that is encoded
    posted,        \* the request made to /admin/map/immediate
    controllers,   \* JSController.controllers: name -> opened joystick
    jsRet          \* what the last call on the JSController returned (history)

metricsVars == <<m, last, resetCleared>>
concVars == <<cb, rs, sc, started>>
mqttVars == <<mq, wg, client>>
remapVars == <<rpc, quads, cMap, ccMap, qi, nMap, nnMap, posted>>
padVars == <<controllers, jsRet>>

Nil == "nil"

(***************************************************************************)
(* package metrics: data                                                   *)
(***************************************************************************)

\* Team label values: the second segment of a topic robot/<team>/stats.
Teams == {"10", "20"}

\* The nine gauge families New registers, by the name of their Metrics field.
Families ==
    {"robotRSSI", "robotVBat", "robotPowerBoard", "robotPowerPico",
     "robotPowerGPIO", "robotPowerBusA", "robotPowerBusB",
     "robotWatchdogOK", "robotWatchdogLifetime"}

\* A GaugeVec with no series.
EmptyVec == [t \in {} |-> 0]

\* The state New leaves: nine registered families, none with a series.
NewMetrics == [f \in Families |-> EmptyVec]

\* Fields of the report struct.
IntFields ==
    {"ControlFrameAge", "ControlFramesReceived", "VBat", "WatchdogRemaining",
     "RSSI", "WifiReconnects"}
BoolFields ==
    {"WatchdogOK", "PwrBoard", "PwrPico", "PwrGPIO", "PwrMainA", "PwrMainB"}
ReportFields == IntFields \cup BoolFields

\* var stats report: the zero value.
ZeroReport ==
    [ControlFrameAge |-> 0, ControlFramesReceived |-> 0, VBat |-> 0,
     WatchdogRemaining |-> 0, WatchdogOK |-> FALSE, RSSI |-> 0,
     WifiReconnects |-> 0, PwrBoard |-> FALSE, PwrPico |-> FALSE,
     PwrGPIO |-> FALSE, PwrMainA |-> FALSE, PwrMainB |-> FALSE]

(***************************************************************************)
(* A payload is a JSON text.  It is modelled by whether it is syntactically *)
(* valid JSON (a truncated text is not) and by the object it denotes: a    *)
(* function from member names to JSON values [t, n], t the JSON type and n *)
(* the number (for a boolean 1 or 0, for a string 0).  A number literal    *)
(* outside the int32 range has type "bignum": its value is never stored.   *)
(***************************************************************************)
JNum(n) == [t |-> "num", n |-> n]
JBigNum == [t |-> "bignum", n |-> 0]
JBool(b) == [t |-> "bool", n |-> IF b THEN 1 ELSE 0]
JStr == [t |-> "str", n |-> 0]

\* json.Unmarshal of one member into an int32 field: a number that fits is
\* stored; anything else is an UnmarshalTypeError and the field is left alone.
IntMemberOK(v) == v.t = "num"
BoolMemberOK(v) == v.t = "bool"

MemberOK(name, v) ==
    IF name \in IntFields THEN IntMemberOK(v) ELSE BoolMemberOK(v)

DecodeMember(name, v) ==
    IF name \in IntFields THEN v.n ELSE (v.n = 1)

\* json.Unmarshal(msg.Payload(), &stats) with stats the zero report: a syntax
\* error is found before anything is stored; a member of the wrong type is
\* skipped, the remaining members are still stored, and the error is returned.
UnmarshalStats(p) ==
    IF ~p.valid THEN ZeroReport
    ELSE [name \in ReportFields |->
            IF name \in DOMAIN p.obj /\ MemberOK(name, p.obj[name])
            THEN DecodeMember(name, p.obj[name])
            ELSE ZeroReport[name]]

UnmarshalErr(p) ==
    \/ ~p.valid
    \/ \E name \in ReportFields \cap DOMAIN p.obj : ~MemberOK(name, p.obj[name])

Unmarshal(p) == [err |-> UnmarshalErr(p), stats |-> UnmarshalStats(p)]

\* strings.Split(msg.Topic(), "/")[1], a topic being its sequence of segments.
TeamOfTopic(topic) == topic[2]

\* fCast
InvertedFCast(b) == IF b THEN 0 ELSE 1
fCast(b) == IF b THEN 1 ELSE 0

\* GaugeVec.With(prometheus.Labels{"team": team}).Set(v)
GaugeSet(vec, team, v) ==
    [t \in DOMAIN vec \cup {team} |-> IF t = team THEN v ELSE vec[t]]

\* The value mqttCallback sets in family f from the decoded report.
FamilyValue(f, stats) ==
    CASE f = "robotRSSI"             -> stats.RSSI
      [] f = "robotVBat"             -> stats.VBat
      [] f = "robotWatchdogLifetime" -> stats.WatchdogRemaining
      [] f = "robotPowerBoard"       -> fCast(stats.PwrBoard)
      [] f = "robotPowerPico"        -> fCast(stats.PwrPico)
      [] f = "robotPowerGPIO"        -> fCast(stats.PwrGPIO)
      [] f = "robotPowerBusA"        -> fCast(stats.PwrMainA)
      [] f = "robotPowerBusB"        -> fCast(stats.PwrMainB)
      [] f = "robotWatchdogOK"       -> fCast(stats.WatchdogOK)

\* The order in which mqttCallback sets the families (lines 131-140).
SetOrder ==
    <<"robotRSSI", "robotVBat", "robotWatchdogLifetime", "robotPowerBoard",
      "robotPowerPico", "robotPowerGPIO", "robotPowerBusA", "robotPowerBusB",
      "robotWatchdogOK">>

\* The order in which ResetRobotMetrics resets the families (lines 112-120).
ResetOrderMissingOne ==
    <<"robotRSSI", "robotVBat", "robotPowerBoard", "robotPowerPico",
      "robotPowerGPIO", "robotPowerBusA", "robotPowerBusB", "robotWatchdogOK">>
ResetOrder ==
    <<"robotRSSI", "robotVBat", "robotPowerBoard", "robotPowerPico",
      "robotPowerGPIO", "robotPowerBusA", "robotPowerBusB", "robotWatchdogOK",
      "robotWatchdogLifetime">>

\* The first n Set calls of mqttCallback for team and stats, applied to mm.
RECURSIVE SetFirst(_, _, _, _)
SetFirst(mm, team, stats, n) ==
    IF n = 0 THEN mm
    ELSE LET prev == SetFirst(mm, team, stats, n - 1)
             f == SetOrder[n]
         IN  [prev EXCEPT ![f] = GaugeSet(prev[f], team, FamilyValue(f, stats))]

\* The first n Reset calls of ResetRobotMetrics, applied to mm.
RECURSIVE ResetFirst(_, _)
ResetFirst(mm, n) ==
    IF n = 0 THEN mm
    ELSE [ResetFirst(mm, n - 1) EXCEPT ![ResetOrder[n]] = EmptyVec]

\* The teams with a series in at least one / in every family.
TeamsIn(mm) == UNION {DOMAIN mm[f] : f \in Families}
TeamsInAll(mm) == {t \in Teams : \A f \in Families : t \in DOMAIN mm[f]}

\* What the nine families hold for team t: family -> value, where present.
SeriesOf(mm, t) ==
    [f \in {g \in Families : t \in DOMAIN mm[g]} |-> mm[f][t]]

(***************************************************************************)
(* package metrics: the messages the broker delivers                       *)
(***************************************************************************)

\* The sample reports.  Within a report the three gauges differ, and each
\* boolean differs from every other one in some report (the six fields carry
\* the codes 1..6, report k holding bit k of the code), so that a value
\* stored in the wrong family shows.
BoolCode ==
    [WatchdogOK |-> 1, PwrBoard |-> 2, PwrPico |-> 3, PwrGPIO |-> 4,
     PwrMainA |-> 5, PwrMainB |-> 6]

IntReading ==
    <<[RSSI |-> 80, VBat |-> 1250, WatchdogRemaining |-> 500],
      [RSSI |-> 40, VBat |-> 1100, WatchdogRemaining |-> 250],
      [RSSI |-> 60, VBat |-> 1200, WatchdogRemaining |-> 375]>>

SampleReport(k) ==
    [name \in ReportFields |->
        IF name \in BoolFields THEN (BoolCode[name] \div (2 ^ (k - 1))) % 2 = 1
        ELSE IF name \in DOMAIN IntReading[k] THEN IntReading[k][name] ELSE 0]

Reports == {SampleReport(k) : k \in 1..Len(IntReading)}

\* The JSON text a robot publishes for report r.
WellFormed(r) ==
    [valid |-> TRUE,
     obj |-> [name \in ReportFields |->
                IF name \in IntFields THEN JNum(r[name]) ELSE JBool(r[name])]]

\* The same text cut short: no longer valid JSON.
Truncated(p) == [p EXCEPT !.valid = FALSE]

\* The same text with member name replaced by v.
WithMember(p, name, v) == [p EXCEPT !.obj[name] = v]

\* Members whose value the malformed sample payloads replace.
SpoiledFields == {"RSSI", "PwrPico"}

MalformedPayloads ==
    {Truncated(WellFormed(r)) : r \in Reports}
        \cup {WithMember(WellFormed(r), name, JStr) : r \in Reports, name \in SpoiledFields}
        \cup {WithMember(WellFormed(r), "VBat", JBigNum) : r \in Reports}

Payloads == {WellFormed(r) : r \in Reports} \cup MalformedPayloads

\* Topics matching the subscription filter robot/+/stats.
Topics == {<<"robot", t, "stats">> : t \in Teams}

(***************************************************************************)
(* package metrics: calls made one after another                           *)
(***************************************************************************)

NoPayload == [valid |-> FALSE, obj |-> EmptyVec]
NoCall ==
    [op |-> "none", team |-> Nil, payload |-> NoPayload, err |-> FALSE,
     stats |-> ZeroReport]

\* mqttCallback(c, msg), run to completion.  The decode error is logged and
\* the nine Set calls follow whether or not there was one.
mqttCallback(topic, payload) ==
    LET teamNum == TeamOfTopic(topic)
        dec == Unmarshal(payload)
    IN  /\ m' = SetFirst(m, teamNum, dec.stats, Len(SetOrder))
        /\ last' = [op |-> "mqttCallback", team |-> teamNum, payload |-> payload,
                    err |-> dec.err, stats |-> dec.stats]
        /\ UNCHANGED resetCleared

\* ResetRobotMetrics(), run to completion.
ResetRobotMetrics ==
    /\ m' = ResetFirst(m, Len(ResetOrder))
    /\ last' = [NoCall EXCEPT !.op = "ResetRobotMetrics"]
    /\ resetCleared' = TeamsIn(m)

MetricsInit ==
    /\ m = NewMetrics
    /\ last = NoCall
    /\ resetCleared = {}

ConcIdle ==
    /\ cb = [pc |-> 0, team |-> Nil, stats |-> ZeroReport]
    /\ rs = 0
    /\ sc = [pc |-> "idle", got |-> EmptyVec]
    /\ started = [mqttCallback |-> 0, ResetRobotMetrics |-> 0, Gather |-> 0]

MQTTIdle ==
    /\ mq = [pc |-> "start", ret |-> Nil, lastSubErr |-> Nil, subCalls |-> 0,
             connectOK |-> FALSE, subscribeOK |-> FALSE]
    /\ wg = [count |-> 0, done |-> 0]
    /\ client = [conn |-> "none", subscribed |-> FALSE, reconnects |-> 0]

EmptyMap == [k \in {} |-> <<>>]

RemapIdle ==
    /\ rpc = "start"
    /\ quads = <<>>
    /\ cMap = EmptyMap /\ ccMap = EmptyMap /\ nMap = EmptyMap /\ nnMap = EmptyMap
    /\ qi = 1
    /\ posted = [sent |-> FALSE, body |-> EmptyMap]

\* NewJSController: no controller is bound.
NoJSCall ==
    [op |-> "none", name |-> Nil, err |-> Nil, val |-> <<>>, panicked |-> FALSE]

PadIdle ==
    /\ controllers = [n \in {} |-> 0]
    /\ jsRet = NoJSCall

InitMetrics == MetricsInit /\ ConcIdle /\ MQTTIdle /\ RemapIdle /\ PadIdle

Deliver == \E topic \in Topics, payload \in Payloads : mqttCallback(topic, payload)

NextMetrics ==
    \/ Deliver /\ UNCHANGED <<concVars, mqttVars, remapVars, padVars>>
    \/ ResetRobotMetrics /\ UNCHANGED <<concVars, mqttVars, remapVars, padVars>>

vars == <<metricsVars, concVars, mqttVars, remapVars, padVars>>

SpecMetrics == InitMetrics /\ [][NextMetrics]_vars

(***************************************************************************)
(* package metrics: the handler, a reset and a scrape running concurrently *)
(*                                                                         *)
(* The MQTT client calls the handler for one message at a time (its        *)
(* default, ordered delivery); ResetRobotMetrics and the scrape of the     *)
(* registry are called from other goroutines.  Metrics holds no lock of    *)
(* its own: each GaugeVec call (Set, Reset, Collect) is atomic by the      *)
(* vector's internal mutex, and nothing spans two of them.                 *)
(***************************************************************************)

\* How many calls of each kind a run starts.
MaxCallbacks == 1
MaxResets == 1
MaxScrapes == 1

ConcPayloads == {WellFormed(SampleReport(1))}

\* mqttCallback lines 124-129: team from the topic, payload decoded.
CallbackStart(topic, payload) ==
    /\ cb.pc = 0
    /\ started.mqttCallback < MaxCallbacks
    /\ cb' = [pc |-> 1, team |-> TeamOfTopic(topic), stats |-> Unmarshal(payload).stats]
    /\ started' = [started EXCEPT !.mqttCallback = @ + 1]
    /\ UNCHANGED <<m, rs, sc>>

\* mqttCallback lines 131-140: the cb.pc-th Set; the handler returns after the last.
CallbackSet ==
    /\ cb.pc \in 1..Len(SetOrder)
    /\ LET f == SetOrder[cb.pc]
       IN  m' = [m EXCEPT ![f] = GaugeSet(m[f], cb.team, FamilyValue(f, cb.stats))]
    /\ cb' = [cb EXCEPT !.pc = IF cb.pc = Len(SetOrder) THEN 0 ELSE cb.pc + 1]
    /\ UNCHANGED <<rs, sc, started>>

\* ResetRobotMetrics is called.
ResetStart ==
    /\ rs = 0
    /\ started.ResetRobotMetrics < MaxResets
    /\ rs' = 1
    /\ started' = [started EXCEPT !.ResetRobotMetrics = @ + 1]
    /\ UNCHANGED <<m, cb, sc>>

\* ResetRobotMetrics lines 112-120: the rs-th Reset; it returns after the last.
ResetOne ==
    /\ rs \in 1..Len(ResetOrder)
    /\ m' = [m EXCEPT ![ResetOrder[rs]] = EmptyVec]
    /\ rs' = IF rs = Len(ResetOrder) THEN 0 ELSE rs + 1
    /\ UNCHANGED <<cb, sc, started>>

\* A scrape of Registry(): Gather is called.
GatherStart ==
    /\ sc.pc # "collecting"
    /\ started.Gather < MaxScrapes
    /\ sc' = [pc |-> "collecting", got |-> EmptyVec]
    /\ started' = [started EXCEPT !.Gather = @ + 1]
    /\ UNCHANGED <<m, cb, rs>>

\* The order in which New registers the families (lines 86-94).
RegisterOrder ==
    <<"robotRSSI", "robotVBat", "robotPowerBoard", "robotPowerPico",
      "robotPowerGPIO", "robotPowerBusA", "robotPowerBusB", "robotWatchdogOK",
      "robotWatchdogLifetime">>

\* Gather collects the registered families one at a time, each Collect atomic
\* for its own family only.  The families are taken in registration order: the
\* registry's own order is not fixed, and every snapshot this order yields is
\* one the registry can yield.
GatherCollect ==
    /\ sc.pc = "collecting"
    /\ LET f == RegisterOrder[Cardinality(DOMAIN sc.got) + 1]
           got == [g \in DOMAIN sc.got \cup {f} |-> IF g = f THEN m[f] ELSE sc.got[g]]
       IN  sc' = [pc |-> IF DOMAIN got = Families THEN "done" ELSE "collecting",
                  got |-> got]
    /\ UNCHANGED <<m, cb, rs, started>>

NextConcurrent ==
    \/ \E topic \in Topics, payload \in ConcPayloads :
         CallbackStart(topic, payload) /\ UNCHANGED <<last, resetCleared, mqttVars, remapVars, padVars>>
    \/ CallbackSet /\ UNCHANGED <<last, resetCleared, mqttVars, remapVars, padVars>>
    \/ ResetStart /\ UNCHANGED <<last, resetCleared, mqttVars, remapVars, padVars>>
    \/ ResetOne /\ UNCHANGED <<last, resetCleared, mqttVars, remapVars, padVars>>
    \/ GatherStart /\ UNCHANGED <<last, resetCleared, mqttVars, remapVars, padVars>>
    \/ GatherCollect /\ UNCHANGED <<last, resetCleared, mqttVars, remapVars, padVars>>

SpecConcurrent == InitMetrics /\ [][NextConcurrent]_vars

(***************************************************************************)
(* package metrics: MQTTInit                                               *)
(*                                                                         *)
(* The client is built with auto-reconnect and the library's default clean *)
(* session: when the transport session is lost the client reconnects by    *)
(* itself, and the broker has dropped the subscription with the session.   *)
(* backoff.Retry calls subFunc until it returns nil or the exponential     *)
(* back-off's time budget is used up (NextBackOff returns Stop), and then  *)
(* returns subFunc's last error; subFunc marks no error as permanent.      *)
(***************************************************************************)

\* The most subFunc calls the back-off's time budget leaves room for.
MaxSubCalls == 3
\* How many times a run loses and regains its transport session.
MaxReconnects == 2

\* What a failed Subscribe token reports: a failure that may pass (not
\* connected, connection lost) or one that will not (the broker refuses).
SubErrors == {"transient", "permanent"}

\* The wait group after MQTTInit returns err: Done is called on the nil
\* return only (line 172).
DoneOnEveryReturn(w, err) == [count |-> w.count - 1, done |-> w.done + 1]
DoneOnReturn(w, err) ==
    IF err = Nil THEN [count |-> w.count - 1, done |-> w.done + 1] ELSE w

\* Line 145: wg.Add(1).
MQTTInitEnter ==
    /\ mq.pc = "start"
    /\ wg' = [wg EXCEPT !.count = @ + 1]
    /\ mq' = [mq EXCEPT !.pc = "connect"]
    /\ UNCHANGED client

\* Lines 154-158: client.Connect(); its error is returned.
Connect ==
    /\ mq.pc = "connect"
    /\ \/ /\ client' = [client EXCEPT !.conn = "up"]
          /\ mq' = [mq EXCEPT !.pc = "subscribe", !.connectOK = TRUE]
          /\ UNCHANGED wg
       \/ /\ mq' = [mq EXCEPT !.pc = "returned", !.ret = "connect"]
          /\ wg' = DoneOnReturn(wg, "connect")
          /\ UNCHANGED client

\* Lines 160-166: one call of subFunc.  Without a session the token fails.
Subscribe ==
    /\ mq.pc = "subscribe"
    /\ \/ /\ client.conn = "up"
          /\ client' = [client EXCEPT !.subscribed = TRUE]
          /\ mq' = [mq EXCEPT !.pc = "subscribed", !.lastSubErr = Nil,
                              !.subCalls = @ + 1, !.subscribeOK = TRUE]
       \/ /\ \E e \in IF client.conn = "up" THEN SubErrors ELSE {"transient"} :
               mq' = [mq EXCEPT !.pc = "backoff", !.lastSubErr = e,
                                !.subCalls = @ + 1]
          /\ UNCHANGED client
    /\ UNCHANGED wg

\* Line 167, inside backoff.Retry after subFunc failed: wait and call it
\* again, whatever the error was.
RetryAgain ==
    /\ mq.pc = "backoff"
    /\ mq.subCalls < MaxSubCalls
    /\ mq' = [mq EXCEPT !.pc = "subscribe"]
    /\ UNCHANGED <<wg, client>>

\* Lines 167-170: the back-off has stopped; Retry returns subFunc's last
\* error and MQTTInit returns it.
RetryGivesUp ==
    /\ mq.pc = "backoff"
    /\ mq' = [mq EXCEPT !.pc = "returned", !.ret = mq.lastSubErr]
    /\ wg' = DoneOnReturn(wg, mq.lastSubErr)
    /\ UNCHANGED client

\* Lines 171-173: wg.Done(); return nil.
SignalReady ==
    /\ mq.pc = "subscribed"
    /\ mq' = [mq EXCEPT !.pc = "returned", !.ret = Nil]
    /\ wg' = DoneOnReturn(wg, Nil)
    /\ UNCHANGED client

\* The transport session is lost.
Disconnect ==
    /\ client.conn = "up"
    /\ client.reconnects < MaxReconnects
    /\ client' = [client EXCEPT !.conn = "down", !.subscribed = FALSE]
    /\ UNCHANGED <<mq, wg>>

\* Line 148: the client reconnects by itself; no code of Metrics runs.
Reconnect ==
    /\ client.conn = "down"
    /\ client' = [client EXCEPT !.conn = "up", !.reconnects = @ + 1]
    /\ UNCHANGED <<mq, wg>>

\* The messages delivered in the runs of MQTTInit.
InitPayloads == {WellFormed(SampleReport(1)), Truncated(WellFormed(SampleReport(2)))}

\* Line 161: the broker delivers a message on the subscription and the
\* client calls m.mqttCallback.
DeliverSubscribed ==
    /\ client.conn = "up" /\ client.subscribed
    /\ \E topic \in Topics, payload \in InitPayloads : mqttCallback(topic, payload)

InitMQTT ==
    /\ MetricsInit /\ ConcIdle /\ RemapIdle /\ PadIdle
    /\ mq = [pc |-> "start", ret |-> Nil, lastSubErr |-> Nil, subCalls |-> 0,
             connectOK |-> FALSE, subscribeOK |-> FALSE]
    /\ wg \in {[count |-> c, done |-> 0] : c \in {0, 1}}
    /\ client = [conn |-> "none", subscribed |-> FALSE, reconnects |-> 0]

NextMQTT ==
    \/ MQTTInitEnter /\ UNCHANGED <<metricsVars, concVars, remapVars, padVars>>
    \/ Connect /\ UNCHANGED <<metricsVars, concVars, remapVars, padVars>>
    \/ Subscribe /\ UNCHANGED <<metricsVars, concVars, remapVars, padVars>>
    \/ RetryAgain /\ UNCHANGED <<metricsVars, concVars, remapVars, padVars>>
    \/ RetryGivesUp /\ UNCHANGED <<metricsVars, concVars, remapVars, padVars>>
    \/ SignalReady /\ UNCHANGED <<metricsVars, concVars, remapVars, padVars>>
    \/ Disconnect /\ UNCHANGED <<metricsVars, concVars, remapVars, padVars>>
    \/ Reconnect /\ UNCHANGED <<metricsVars, concVars, remapVars, padVars>>
    \/ DeliverSubscribed /\ UNCHANGED <<concVars, mqttVars, remapVars, padVars>>

SpecMQTT == InitMQTT /\ [][NextMQTT]_vars

(***************************************************************************)
(* package cmdlets: fieldRemapCmdRun                                       *)
(*                                                                         *)
(* Strings are sequences of characters, so that strconv.Atoi reads them.   *)
(* A JSON object of strings, and a Go map[string]string, is a function     *)
(* from its keys to its values.                                            *)
(***************************************************************************)

\* The most quadrants the server is configured with.
MaxQuads == 2

QuadNames == {<<"N", "E">>, <<"N", "W">>, <<"S", "E">>}
ServerTeams == {<<"1", "0">>, <<"2", "0">>}

\* What the operator types at a prompt; the empty line takes the default.
TypedInputs == {<<>>, <<"1", "0">>, <<"2", "0">>, <<"-", "7">>, <<"x", "7">>}

Range(f) == {f[x] : x \in DOMAIN f}

\* The lists /admin/cfg/quads answers with: the configured quadrants, in order.
QuadLists ==
    {q \in UNION {[1..n -> QuadNames] : n \in 0..MaxQuads} :
        \A i, j \in DOMAIN q : i # j => q[i] # q[j]}

\* The objects /admin/map/current answers with.
CurrentMaps ==
    UNION {[ks -> QuadNames] : ks \in SUBSET ServerTeams}

\* strconv.Atoi(s) returns no error: an optional sign, then one or more
\* decimal digits (all inputs here are far inside the int range).
Digits == {"0", "1", "2", "3", "4", "5", "6", "7", "8", "9"}
AtoiOK(s) ==
    LET body == IF Len(s) > 0 /\ s[1] \in {"+", "-"} THEN Tail(s) ELSE s
    IN  Len(body) > 0 /\ \A i \in DOMAIN body : body[i] \in Digits

\* tNumValidator (lines 77-83)
tNumValidator(a) == AtoiOK(a)

\* A Go map read at a key it may not hold: the zero string when absent.
MapGet(mp, k) == IF k \in DOMAIN mp THEN mp[k] ELSE <<>>

\* for k, v := range mp { out[v] = k }: one entry per value of mp; of the
\* keys that share a value, the one the iteration (in no fixed order)
\* reaches last is kept.
Inversions(mp) ==
    {f \in [Range(mp) -> DOMAIN mp] : \A v \in Range(mp) : mp[f[v]] = v}

\* Lines 67-74: ccMap[quad] = team for team, quad := range cMap.
InvertCurrent(mp) == Inversions(mp)

\* Lines 102-105: nnMap[t.(string)] = f for f, t := range nMap.
NotInverted(mp) == {mp}
DropsAnEntry(mp) ==
    {[v \in Range(mp) \ {lost} |-> f[v]] : f \in Inversions(mp), lost \in Range(mp)}
InvertAnswers(mp) == Inversions(mp)

\* Lines 38-50: GET /admin/cfg/quads; a failed request or decode exits.
GetQuads ==
    /\ rpc = "start"
    /\ \/ \E q \in QuadLists : quads' = q /\ rpc' = "getMap"
       \/ rpc' = "exit2" /\ UNCHANGED quads
    /\ UNCHANGED <<cMap, ccMap, qi, nMap, nnMap, posted>>

\* Lines 52-65: GET /admin/map/current; a failed request or decode exits.
GetMap ==
    /\ rpc = "getMap"
    /\ \/ \E c \in CurrentMaps : cMap' = c /\ rpc' = "defaults"
       \/ rpc' = "exit2" /\ UNCHANGED cMap
    /\ UNCHANGED <<quads, ccMap, qi, nMap, nnMap, posted>>

\* Lines 67-75: the current mapping is printed and turned into the defaults.
BuildDefaults ==
    /\ rpc = "defaults"
    /\ ccMap' \in InvertCurrent(cMap)
    /\ rpc' = "ask"
    /\ UNCHANGED <<quads, cMap, qi, nMap, nnMap, posted>>

\* Lines 84-100, one question of survey.Ask: the question named after
\* quads[qi] is answered with the typed line, or with its default when the
\* line is empty; an answer the validator rejects is asked for again.
AskOne ==
    /\ rpc = "ask"
    /\ qi <= Len(quads)
    /\ \E typed \in TypedInputs :
         LET quad == quads[qi]
             answer == IF typed = <<>> THEN MapGet(ccMap, quad) ELSE typed
         IN  /\ tNumValidator(answer)
             /\ nMap' = [q \in DOMAIN nMap \cup {quad} |->
                            IF q = quad THEN answer ELSE nMap[q]]
             /\ qi' = qi + 1
    /\ UNCHANGED <<rpc, quads, cMap, ccMap, nnMap, posted>>

\* Lines 97-100: survey.Ask fails (the operator interrupts a prompt).
AskFails ==
    /\ rpc = "ask"
    /\ qi <= Len(quads)
    /\ rpc' = "exit2"
    /\ UNCHANGED <<quads, cMap, ccMap, qi, nMap, nnMap, posted>>

\* Lines 102-105: every question is answered; the answers are inverted.
Invert ==
    /\ rpc = "ask"
    /\ qi > Len(quads)
    /\ nnMap' \in InvertAnswers(nMap)
    /\ rpc' = "post"
    /\ UNCHANGED <<quads, cMap, ccMap, qi, nMap, posted>>

\* Lines 107-109: nnMap is encoded and posted; the result is not looked at.
Post ==
    /\ rpc = "post"
    /\ posted' = [sent |-> TRUE, body |-> nnMap]
    /\ rpc' = "done"
    /\ UNCHANGED <<quads, cMap, ccMap, qi, nMap, nnMap>>

InitRemap == MetricsInit /\ ConcIdle /\ MQTTIdle /\ RemapIdle /\ PadIdle

NextRemap ==
    \/ GetQuads /\ UNCHANGED <<metricsVars, concVars, mqttVars, padVars>>
    \/ GetMap /\ UNCHANGED <<metricsVars, concVars, mqttVars, padVars>>
    \/ BuildDefaults /\ UNCHANGED <<metricsVars, concVars, mqttVars, padVars>>
    \/ AskOne /\ UNCHANGED <<metricsVars, concVars, mqttVars, padVars>>
    \/ AskFails /\ UNCHANGED <<metricsVars, concVars, mqttVars, padVars>>
    \/ Invert /\ UNCHANGED <<metricsVars, concVars, mqttVars, padVars>>
    \/ Post /\ UNCHANGED <<metricsVars, concVars, mqttVars, padVars>>

SpecRemap == InitRemap /\ [][NextRemap]_vars

(***************************************************************************)
(* package gamepad: JSController                                           *)
(*                                                                         *)
(* Both methods hold cMutex for their whole body, so each call is one      *)
(* step.  A pointer result is a sequence: empty for nil, else the value.   *)
(***************************************************************************)

FieldNames == {"field1", "field2"}
JoystickIDs == {0, 1}

\* The joystick counts BindController accepts (line 131).
WantAxes == 6
WantButtons == 12

\* mapRange's arguments in GetState (lines 157-164).
AxisMin == -32768
AxisMax == 32768
OutMin == 0
OutMax == 255

\* What joystick.Open finds behind an id: nothing, or a device with its
\* axis and button counts.
DeviceKinds ==
    {[axes |-> WantAxes, buttons |-> WantButtons],
     [axes |-> 4, buttons |-> WantButtons],
     [axes |-> WantAxes, buttons |-> 10]}

\* What js.Read returns for a device: an error, or one AxisData entry per
\* axis and the button bits.
AxisSamples ==
    {<<-32768, -16384, -1, 0, 16384, 32767>>,
     <<32767, 0, -32768, 1, -2, 255>>}
ButtonSamples == {0, 4095, 2 ^ 8 + 2 ^ 3 + 1, 2 ^ 11 + 2 ^ 6 + 2}

Readings(js) ==
    {[err |-> TRUE, AxisData |-> <<>>, Buttons |-> 0]}
        \cup {[err |-> FALSE, AxisData |-> SubSeq(a, 1, js.axes), Buttons |-> b]
               : a \in AxisSamples, b \in ButtonSamples}

\* Go's integer division truncates toward zero.
TruncDiv(a, b) ==
    IF (a >= 0) = (b > 0) \/ a = 0
    THEN (IF a >= 0 THEN a ELSE -a) \div (IF b >= 0 THEN b ELSE -b)
    ELSE -((IF a >= 0 THEN a ELSE -a) \div (IF b >= 0 THEN b ELSE -b))

mapRange(x, xMin, xMax, oMin, oMax) ==
    TruncDiv((x - xMin) * (oMax - oMin), xMax - xMin) + oMin

\* (jinfo.Buttons & (1 << uint32(k))) != 0
Bit(buttons, k) == (buttons \div (2 ^ k)) % 2 = 1

\* Lines 156-178: the Values built from a reading (AxisData[i] is index i+1).
ValuesOf(jinfo) ==
    [AxisLX |-> mapRange(jinfo.AxisData[1], AxisMin, AxisMax, OutMin, OutMax),
     AxisLY |-> mapRange(jinfo.AxisData[2], AxisMin, AxisMax, OutMin, OutMax),
     AxisRX |-> mapRange(jinfo.AxisData[3], AxisMin, AxisMax, OutMin, OutMax),
     AxisRY |-> mapRange(jinfo.AxisData[4], AxisMin, AxisMax, OutMin, OutMax),
     AxisDX |-> mapRange(jinfo.AxisData[5], AxisMin, AxisMax, OutMin, OutMax),
     AxisDY |-> mapRange(jinfo.AxisData[6], AxisMin, AxisMax, OutMin, OutMax),
     ButtonBack |-> Bit(jinfo.Buttons, 8),
     ButtonStart |-> Bit(jinfo.Buttons, 9),
     ButtonLeftStick |-> Bit(jinfo.Buttons, 10),
     ButtonRightStick |-> Bit(jinfo.Buttons, 11),
     ButtonX |-> Bit(jinfo.Buttons, 0),
     ButtonY |-> Bit(jinfo.Buttons, 3),
     ButtonA |-> Bit(jinfo.Buttons, 1),
     ButtonB |-> Bit(jinfo.Buttons, 2),
     ButtonLShoulder |-> Bit(jinfo.Buttons, 4),
     ButtonRShoulder |-> Bit(jinfo.Buttons, 5),
     ButtonLT |-> Bit(jinfo.Buttons, 6),
     ButtonRT |-> Bit(jinfo.Buttons, 7)]

\* The zero Values.
ZeroValues ==
    [AxisLX |-> 0, AxisLY |-> 0, AxisRX |-> 0, AxisRY |-> 0, AxisDX |-> 0,
     AxisDY |-> 0, ButtonBack |-> FALSE, ButtonStart |-> FALSE,
     ButtonLeftStick |-> FALSE, ButtonRightStick |-> FALSE, ButtonX |-> FALSE,
     ButtonY |-> FALSE, ButtonA |-> FALSE, ButtonB |-> FALSE,
     ButtonLShoulder |-> FALSE, ButtonRShoulder |-> FALSE, ButtonLT |-> FALSE,
     ButtonRT |-> FALSE]

\* Lines 146-149 of GetState: what it returns for a name that is not bound.
UnboundUnchecked(fieldID) ==
    [op |-> "GetState", name |-> fieldID, err |-> Nil, val |-> <<ZeroValues>>,
     panicked |-> FALSE]
UnboundResult(fieldID) ==
    [op |-> "GetState", name |-> fieldID, err |-> "ErrNoSuchField", val |-> <<>>,
     panicked |-> FALSE]

\* Lines 151-181 of GetState, for the bound joystick js and what Read gave:
\* Read's error is returned; indexing AxisData past its length panics.
BoundResult(fieldID, js, jinfo) ==
    IF jinfo.err
    THEN [op |-> "GetState", name |-> fieldID, err |-> "read", val |-> <<>>,
          panicked |-> FALSE]
    ELSE IF Len(jinfo.AxisData) < 6
    THEN [op |-> "GetState", name |-> fieldID, err |-> Nil, val |-> <<>>,
          panicked |-> TRUE]
    ELSE [op |-> "GetState", name |-> fieldID, err |-> Nil,
          val |-> <<ValuesOf(jinfo)>>, panicked |-> FALSE]

\* BindController(name, id), lines 122-138.  The joystick is stored under
\* name as soon as it is open (line 129); its counts are checked after that
\* (line 131).
BindController(name, id) ==
    \/ /\ jsRet' = [NoJSCall EXCEPT !.op = "BindController", !.name = name,
                                     !.err = "open"]
       /\ UNCHANGED controllers
    \/ \E dev \in DeviceKinds :
         LET js == [id |-> id, axes |-> dev.axes, buttons |-> dev.buttons]
         IN  /\ controllers' = [n \in DOMAIN controllers \cup {name} |->
                                   IF n = name THEN js ELSE controllers[n]]
             /\ jsRet' = [NoJSCall EXCEPT
                            !.op = "BindController", !.name = name,
                            !.err = IF js.axes # WantAxes \/ js.buttons # WantButtons
                                    THEN "bad joystick config" ELSE Nil]

\* GetState(fieldID), lines 142-182.
GetState(fieldID) ==
    /\ IF fieldID \notin DOMAIN controllers
       THEN jsRet' = UnboundResult(fieldID)
       ELSE \E jinfo \in Readings(controllers[fieldID]) :
                jsRet' = BoundResult(fieldID, controllers[fieldID], jinfo)
    /\ UNCHANGED controllers

InitGamepad == MetricsInit /\ ConcIdle /\ MQTTIdle /\ RemapIdle /\ PadIdle

NextGamepad ==
    \/ \E name \in FieldNames, id \in JoystickIDs :
         BindController(name, id) /\ UNCHANGED <<metricsVars, concVars, mqttVars, remapVars>>
    \/ \E fieldID \in FieldNames :
         GetState(fieldID) /\ UNCHANGED <<metricsVars, concVars, mqttVars, remapVars>>

SpecGamepad == InitGamepad /\ [][NextGamepad]_vars

(***************************************************************************)
(* package metrics: properties                                             *)
(***************************************************************************)

\* The report field each family shows.
FamilyField ==
    [robotRSSI |-> "RSSI", robotVBat |-> "VBat",
     robotWatchdogLifetime |-> "WatchdogRemaining",
     robotPowerBoard |-> "PwrBoard", robotPowerPico |-> "PwrPico",
     robotPowerGPIO |-> "PwrGPIO", robotPowerBusA |-> "PwrMainA",
     robotPowerBusB |-> "PwrMainB", robotWatchdogOK |-> "WatchdogOK"]

BoolFamilies == {f \in Families : FamilyField[f] \in BoolFields}

\* No team has a series in some families and not in others.
NotTorn(mm) == TeamsIn(mm) = TeamsInAll(mm)

\* C1: a payload that fails to decode is dropped: what the nine families hold
\* for the message's team (series present and their values) is the same
\* after the handler as before it.
ClaimC1_MalformedDropped ==
    [][(last'.op = "mqttCallback" /\ last'.err)
         => SeriesOf(m', last'.team) = SeriesOf(m, last'.team)]_vars

\* C2: no scrape, and no state in which the handler and the reset have both
\* returned, shows a team in some of the nine families and not in others.
ClaimC2_NeverTorn ==
    /\ (sc.pc = "done" => NotTorn(sc.got))
    /\ (cb.pc = 0 /\ rs = 0 => NotTorn(m))

\* C3: with calls made one after another, no family holds a series when
\* ResetRobotMetrics returns, and a team's series appear only in a handler
\* call for that team.
ThmC3_ResetClearsAll ==
    [][/\ (last'.op = "ResetRobotMetrics" => TeamsIn(m') = {})
       /\ \A t \in Teams :
            (t \notin TeamsIn(m) /\ t \in TeamsIn(m'))
                => (last'.op = "mqttCallback" /\ last'.team = t)]_vars

\* observe 10, observe 20, reset, observe 10: series for team 10 only.
WitnessC3 ==
    /\ last.op = "mqttCallback" /\ last.team = "10"
    /\ resetCleared = {"10", "20"}
    /\ TeamsIn(m) = {"10"} /\ TeamsInAll(m) = {"10"}

\* C5: after the handler has processed a well-formed report for team T, each
\* family holds for T the number, or 1 for true and 0 for false, the report
\* gives for the family's field; the series of the other teams are as they
\* were; and a boolean family never holds anything but 0 or 1.
ThmC5_ReportStored ==
    /\ [][(last'.op = "mqttCallback"
            /\ last'.payload \in {WellFormed(r) : r \in Reports})
           => /\ \A f \in Families :
                   /\ last'.team \in DOMAIN m'[f]
                   /\ m'[f][last'.team] = last'.payload.obj[FamilyField[f]].n
              /\ \A t \in Teams \ {last'.team} :
                   SeriesOf(m', t) = SeriesOf(m, t)]_vars
    /\ [](\A f \in BoolFamilies : \A t \in DOMAIN m[f] : m[f][t] \in {0, 1})

\* A second report for team 10 has replaced an earlier one with other
\* values, while team 20 keeps the series of its own report.
WitnessC5 ==
    /\ last.op = "mqttCallback" /\ last.team = "10"
    /\ last.payload = WellFormed(SampleReport(1))
    /\ TeamsInAll(m) = {"10", "20"}
    /\ SeriesOf(m, "20") = [f \in Families |->
                               WellFormed(SampleReport(2)).obj[FamilyField[f]].n]
    /\ m["robotWatchdogOK"]["10"] = 1 /\ m["robotPowerBoard"]["10"] = 0

(***************************************************************************)
(* package metrics: properties of MQTTInit                                 *)
(***************************************************************************)

\* C4: MQTTInit signals the startup wait group at most once, only after a
\* subscription has succeeded, which is only after a connect has; and a
\* step that loses or regains the transport session signals nothing.
ThmC4_ReadyOnce ==
    /\ [](/\ wg.done <= 1
          /\ (wg.done = 1 => mq.subscribeOK /\ mq.pc = "returned")
          /\ (mq.subscribeOK => mq.connectOK))
    /\ [][client.conn' # client.conn /\ client.conn # "none" => wg' = wg]_vars

\* Ready was signalled, and the session has since been lost and regained
\* as often as the run allows.
WitnessC4 ==
    /\ wg.done = 1
    /\ client.reconnects = MaxReconnects /\ client.conn = "up"

\* C8: MQTTInit returns an error exactly when the connect failed or the
\* retry loop ended on a permanent error; a transient subscribe failure is
\* never returned; no subscription is attempted after a failed connect; and
\* an error return has not signalled ready.
ClaimC8_ErrorsReturned ==
    mq.pc = "returned" =>
        /\ (mq.ret # Nil <=> (~mq.connectOK \/ mq.lastSubErr = "permanent"))
        /\ mq.ret # "transient"
        /\ (~mq.connectOK => mq.subCalls = 0)
        /\ (mq.ret # Nil => wg.done = 0)

(***************************************************************************)
(* package cmdlets: properties                                             *)
(***************************************************************************)

ThmC9_DuplicateDropped ==
    posted.sent =>
        /\ Cardinality(DOMAIN posted.body) <= Cardinality(DOMAIN nMap)
        /\ (Cardinality(DOMAIN posted.body) = Cardinality(DOMAIN nMap)
              <=> \A p, q \in DOMAIN nMap : p # q => nMap[p] # nMap[q])

\* Both quadrants were given the same team number; one entry was posted.
WitnessC9 ==
    /\ posted.sent
    /\ Cardinality(DOMAIN nMap) = 2
    /\ Cardinality(Range(nMap)) = 1
    /\ Cardinality(DOMAIN posted.body) = 1

(***************************************************************************)
(* package gamepad: properties                                             *)
(***************************************************************************)

\* C7: GetState for a name with no controller bound returns a nil value
\* and ErrNoSuchField, does not panic, and leaves the controller map as it
\* was.
ThmC7_NoSuchField ==
    [][(jsRet'.op = "GetState" /\ jsRet'.name \notin DOMAIN controllers)
         => /\ jsRet'.err = "ErrNoSuchField"
            /\ jsRet'.val = <<>>
            /\ ~jsRet'.panicked
            /\ controllers' = controllers]_vars

\* GetState was called for an unbound name while another name is bound.
WitnessC7 ==
    /\ jsRet.op = "GetState" /\ jsRet.name = "field2"
    /\ DOMAIN controllers = {"field1"}
    /\ jsRet.err = "ErrNoSuchField"

\* C10: a BindController call that returns an error leaves the controller
\* map as it was.
ClaimC10_FailedBindNoChange ==
    [][(jsRet'.op = "BindController" /\ jsRet'.err # Nil)
         => controllers' = controllers]_vars

====
